---- MODULE Spec2Model ----
(***************************************************************************)
(* A model of qti2latex.py: conversion of a QTI (Canvas) question bank     *)
(* into a LaTeX exam.                                                      *)
(*                                                                         *)
(* Texts are sequences of tokens.  A token is a literal substring of the   *)
(* text (one character, or a word such as "question_type"); the token      *)
(* alphabets are chosen so that distinct token sequences spell distinct    *)
(* strings.  An XML tree is the sequence of its elements in document       *)
(* order, each element carrying its depth; an element is named by its      *)
(* index, and 0 stands for None.                                           *)
(***************************************************************************)
EXTENDS Integers, Sequences, FiniteSets, TLC

VARIABLES
    item, ipc, meta, qtype, stem, fragment,     \* one item through the item pipeline
    escIn, escOut, epc,                         \* escape_tex
    rwIn, rwOut, rpc,                           \* the media path rewrite
    pc, is_zip, tmp_dir, tmp_exists, nfiles, media_made, title, xf, doc, questions, qi,
    qcount, out_opened, out_closed, written, status, error,
    path_items,                                 \* the items at assessment/section/item read so far
    path_unknown                                \* those of them without type and response structure

itemVars == <<item, ipc, meta, qtype, stem, fragment>>
escVars  == <<escIn, escOut, epc>>
rwVars   == <<rwIn, rwOut, rpc>>
mainVars == <<pc, is_zip, tmp_dir, tmp_exists, nfiles, media_made, title, xf, doc, questions, qi,
              qcount, out_opened, out_closed, written, status, error, path_items,
              path_unknown>>
vars == <<itemVars, escVars, rwVars, mainVars>>

(***************************************************************************)
(* Generic list helpers.                                                   *)
(***************************************************************************)
SeqsUpTo(S, n) == UNION {[1..k -> S] : k \in 0..n}

FlatMap(F(_), s) ==
    LET f[n \in 0..Len(s)] == IF n = 0 THEN <<>> ELSE f[n-1] \o F(s[n])
    IN  f[Len(s)]

Range(s) == {s[i] : i \in DOMAIN s}

\* the members of a set of element indices, in document order
InOrder(S) ==
    LET f[n \in 0..(IF S = {} THEN 0 ELSE CHOOSE m \in S : \A k \in S : k <= m)] ==
            IF n = 0 THEN <<>>
            ELSE IF n \in S THEN Append(f[n-1], n) ELSE f[n-1]
    IN  f[IF S = {} THEN 0 ELSE CHOOSE m \in S : \A k \in S : k <= m]

(***************************************************************************)
(* Text helpers: str.lower and str.strip.                                  *)
(***************************************************************************)
LowerTok(c) ==
    CASE c = "True"  -> "true"
      [] c = "TRUE"  -> "true"
      [] c = "False" -> "false"
      [] c = "FALSE" -> "false"
      [] c = "Question_Type" -> "question_type"
      [] c = "Interaction_Type" -> "interaction_type"
      [] c = "Essay_Question" -> "essay_question"
      [] c = "Numerical_Question" -> "numerical_question"
      [] c = "X" -> "x"
      [] OTHER -> c

lower(s) == [i \in DOMAIN s |-> LowerTok(s[i])]

IsSpace(c) == c \in {" ", "\n"}

strip(s) ==
    LET keep == {i \in DOMAIN s : ~IsSpace(s[i])}
    IN  IF keep = {} THEN <<>>
        ELSE LET lo == CHOOSE i \in keep : \A k \in keep : i <= k
                 hi == CHOOSE i \in keep : \A k \in keep : k <= i
             IN  SubSeq(s, lo, hi)

(***************************************************************************)
(* XML access by local name.                                               *)
(***************************************************************************)
\* an element: its tag is <<local name>>, or <<namespace, local name>> for "{namespace}local name"
Node(ns, tag, text, ident) ==
    [tag |-> IF ns = "" THEN <<tag>> ELSE <<ns, tag>>, d |-> 0, text |-> text, ident |-> ident]

\* n.tag.split('}')[-1]
extract_tag(n) == n.tag[Len(n.tag)]

\* elem.iter(): the element and its descendants
Iter(t, e) ==
    {j \in e..Len(t) : \A k \in (e+1)..j : t[k].d > t[e].d}

findall_anyns(t, e, tagname) ==
    InOrder({j \in Iter(t, e) : extract_tag(t[j]) = tagname})

childall_anyns(t, e, tagname) ==
    InOrder({j \in Iter(t, e) : t[j].d = t[e].d + 1 /\ extract_tag(t[j]) = tagname})

child_anyns(t, e, tagname) ==
    LET c == childall_anyns(t, e, tagname) IN IF c # <<>> THEN c[1] ELSE 0

text_of(t, e) == IF e # 0 THEN strip(t[e].text) ELSE <<>>

first(elem_list) == IF elem_list # <<>> THEN elem_list[1] ELSE 0

(***************************************************************************)
(* html_to_latex: pandoc, an external converter.  Its result is kept as an *)
(* opaque piece that records what was converted; a literal piece records   *)
(* text the program wrote itself.                                          *)
(***************************************************************************)
html_to_latex(s) == [k |-> "latex", v |-> s]

Lit(s) == [k |-> "lit", v |-> s]

(***************************************************************************)
(* escape_tex.                                                             *)
(***************************************************************************)
BS == "\\"
NL == "\n"

\* s[i..] starts with a
StartsAt(s, i, a) ==
    /\ i + Len(a) - 1 <= Len(s)
    /\ \A k \in 1..Len(a) : s[i + k - 1] = a[k]

\* str.replace(a, b): leftmost, non-overlapping occurrences of a non-empty a
RECURSIVE ReplaceFrom(_, _, _, _)
ReplaceFrom(s, i, a, b) ==
    IF i > Len(s) THEN <<>>
    ELSE IF StartsAt(s, i, a) THEN b \o ReplaceFrom(s, i + Len(a), a, b)
    ELSE <<s[i]>> \o ReplaceFrom(s, i + 1, a, b)

replace(s, a, b) == ReplaceFrom(s, 1, a, b)

replacements ==
    << <<"{", <<BS, "{">> >>, <<"}", <<BS, "}">> >>, <<"#", <<BS, "#">> >>,
       <<"$", <<BS, "$">> >>, <<"%", <<BS, "%">> >>, <<"&", <<BS, "&">> >>,
       <<"_", <<BS, "_">> >>, <<"^", <<BS, "^", "{", "}">> >>,
       <<"~", <<BS, "~", "{", "}">> >> >>

RECURSIVE ApplyReplacements(_, _)
ApplyReplacements(s, n) ==
    IF n = 0 THEN s
    ELSE replace(ApplyReplacements(s, n - 1), <<replacements[n][1]>>, replacements[n][2])

\* the reserved characters are escaped before the backslash
escape_tex_BackslashLast(s) ==
    LET s1 == ApplyReplacements(s, Len(replacements))
        s2 == replace(s1, <<BS>>, <<BS, BS>>)
    IN  replace(s2, <<BS, BS, BS, BS, NL>>, <<BS, BS, NL>>)

escape_tex(s) ==
    LET s1 == replace(s, <<BS>>, <<BS, BS>>)
        s2 == ApplyReplacements(s1, Len(replacements))
    IN  replace(s2, <<BS, BS, BS, BS, NL>>, <<BS, BS, NL>>)

(***************************************************************************)
(* The item model extractor.                                               *)
(***************************************************************************)
EmptyMeta == [x \in {} |-> <<>>]

\* dict.get(key), None being <<>> (an empty value is as falsy as None)
MetaGet(m, key) == IF key \in DOMAIN m THEN m[key] ELSE <<>>

get_qti_metadata(t, it) ==
    LET qtms == findall_anyns(t, it, "qtimetadatafield")
        f[n \in 0..Len(qtms)] ==
            IF n = 0 THEN EmptyMeta
            ELSE LET label == text_of(t, first(findall_anyns(t, qtms[n], "fieldlabel")))
                     val   == text_of(t, first(findall_anyns(t, qtms[n], "fieldentry")))
                     m     == f[n-1]
                 IN  IF label # <<>>
                     THEN [x \in DOMAIN m \cup {label} |-> IF x = label THEN val ELSE m[x]]
                     ELSE m
    IN  f[Len(qtms)]

get_item_stem(t, it) ==
    LET pres     == first(findall_anyns(t, it, "presentation"))
        fallback == text_of(t, first(findall_anyns(t, it, "mattext")))
    IN  IF pres # 0
        THEN LET mats  == findall_anyns(t, pres, "mattext")
                 mats2 == findall_anyns(t, pres, "material")
                 hits  == {i \in DOMAIN mats2 : findall_anyns(t, mats2[i], "mattext") # <<>>}
             IN  IF mats # <<>> THEN text_of(t, mats[1])
                 ELSE IF hits # {}
                 THEN LET i == CHOOSE h \in hits : \A k \in hits : h <= k
                      IN  text_of(t, first(findall_anyns(t, mats2[i], "mattext")))
                 ELSE fallback
        ELSE fallback

\* the list of <<ident, html_text>>
get_choices(t, it) ==
    LET OfLabel(lbl)  == << <<t[lbl].ident, text_of(t, first(findall_anyns(t, lbl, "mattext")))>> >>
        OfRender(rc)  == FlatMap(OfLabel, findall_anyns(t, rc, "response_label"))
        OfLid(rl)     == FlatMap(OfRender, findall_anyns(t, rl, "render_choice"))
    IN  FlatMap(OfLid, findall_anyns(t, it, "response_lid"))

get_correct_idents(t, it) ==
    LET rps == Range(findall_anyns(t, it, "resprocessing"))
        rcs == UNION {Range(findall_anyns(t, rp, "respcondition")) : rp \in rps}
        cvs == {first(findall_anyns(t, rc, "conditionvar")) : rc \in rcs} \ {0}
        ves == UNION {Range(findall_anyns(t, cv, "varequal")) : cv \in cvs}
    IN  {strip(t[ve].text) : ve \in ves} \ {<<>>}

(***************************************************************************)
(* The question-type classifier.                                           *)
(***************************************************************************)
TF    == <<"true_false_question">>
MCQ   == <<"multiple_choice_question">>
MAQ   == <<"multiple_answers_question">>
SAQ   == <<"short_answer_question">>
UNKNOWN == <<"unknown">>

\* qt = (meta.get("question_type") or meta.get("interaction_type") or "")
MetaType(m) ==
    IF MetaGet(m, <<"question_type">>) # <<>> THEN MetaGet(m, <<"question_type">>)
    ELSE MetaGet(m, <<"interaction_type">>)

\* labels = [t.lower() for _, t in get_choices(item)]
ChoiceLabels(t, it) ==
    LET ch == get_choices(t, it) IN [i \in DOMAIN ch |-> lower(ch[i][2])]

\* the metadata value is returned as written
guess_type_NoLower(m, t, it) ==
    LET qt == MetaType(m)
    IN  IF qt # <<>> THEN qt
        ELSE IF findall_anyns(t, it, "response_lid") # <<>>
        THEN LET labels == ChoiceLabels(t, it)
             IN  IF Range(labels) \cap {<<"true">>, <<"false">>} # {} /\ Len(labels) <= 3
                 THEN TF
                 ELSE IF Cardinality(get_correct_idents(t, it)) > 1 THEN MAQ
                 ELSE MCQ
        ELSE IF findall_anyns(t, it, "response_str") # <<>> THEN SAQ
        ELSE UNKNOWN

\* the number of choices is not looked at
guess_type_NoLenLimit(m, t, it) ==
    LET qt == lower(MetaType(m))
    IN  IF qt # <<>> THEN qt
        ELSE IF findall_anyns(t, it, "response_lid") # <<>>
        THEN LET labels == ChoiceLabels(t, it)
             IN  IF Range(labels) \cap {<<"true">>, <<"false">>} # {}
                 THEN TF
                 ELSE IF Cardinality(get_correct_idents(t, it)) > 1 THEN MAQ
                 ELSE MCQ
        ELSE IF findall_anyns(t, it, "response_str") # <<>> THEN SAQ
        ELSE UNKNOWN

\* more than two correct identifiers are asked for
guess_type_MoreThanTwo(m, t, it) ==
    LET qt == lower(MetaType(m))
    IN  IF qt # <<>> THEN qt
        ELSE IF findall_anyns(t, it, "response_lid") # <<>>
        THEN LET labels == ChoiceLabels(t, it)
             IN  IF Range(labels) \cap {<<"true">>, <<"false">>} # {} /\ Len(labels) <= 3
                 THEN TF
                 ELSE IF Cardinality(get_correct_idents(t, it)) > 2 THEN MAQ
                 ELSE MCQ
        ELSE IF findall_anyns(t, it, "response_str") # <<>> THEN SAQ
        ELSE UNKNOWN

guess_type(m, t, it) ==
    LET qt == lower(MetaType(m))
    IN  IF qt # <<>> THEN qt
        ELSE IF findall_anyns(t, it, "response_lid") # <<>>
        THEN LET labels == ChoiceLabels(t, it)
             IN  IF Range(labels) \cap {<<"true">>, <<"false">>} # {} /\ Len(labels) <= 3
                 THEN TF
                 ELSE IF Cardinality(get_correct_idents(t, it)) > 1 THEN MAQ
                 ELSE MCQ
        ELSE IF findall_anyns(t, it, "response_str") # <<>> THEN SAQ
        ELSE UNKNOWN

(***************************************************************************)
(* The question renderer.  A fragment is the sequence of the pieces that   *)
(* "".join(lines) concatenates.                                            *)
(***************************************************************************)
UnsupportedMarker ==
    Lit(<<"\\\\[4pt]\\emph{[Unsupported/unknown question type-review manually.]}\n">>)

ChoiceLines(t, it) ==
    LET correct == get_correct_idents(t, it)
        Line(c) == IF c[1] \in correct
                   THEN <<Lit(<<"\\CorrectChoice ">>), html_to_latex(c[2]), Lit(<<"\n">>)>>
                   ELSE <<Lit(<<"\\choice ">>), html_to_latex(c[2]), Lit(<<"\n">>)>>
    IN  FlatMap(Line, get_choices(t, it))

render_question_latex(qt, stem_html, t, it) ==
    LET head == <<Lit(<<"\\question ">>), html_to_latex(stem_html), Lit(<<"\n">>)>>
        body ==
            IF qt \in {MCQ, TF}
            THEN <<Lit(<<"\\begin{choices}\n">>)>> \o ChoiceLines(t, it)
                    \o <<Lit(<<"\\end{choices}\n">>)>>
            ELSE IF qt = MAQ
            THEN <<Lit(<<"\\begin{checkboxes}\n">>)>> \o ChoiceLines(t, it)
                    \o <<Lit(<<"\\end{checkboxes}\n">>)>>
            ELSE IF qt \in {SAQ, <<"numerical_question">>, <<"short_answer">>}
            THEN <<Lit(<<"\\fillin[\\hspace{1.5in}]\n">>)>>
            ELSE IF qt \in {<<"essay_question">>, <<"text_only_question">>}
            THEN <<Lit(<<"\\vspace{2.5\\baselineskip}\n">>)>>
            ELSE <<UnsupportedMarker>>
    IN  head \o body \o <<Lit(<<"\n">>)>>

(***************************************************************************)
(* The media path rewrite of main:                                         *)
(*   re.sub(r'src=["\']([^"\']+)["\']',                                    *)
(*          lambda m: f'src="media/{Path(m.group(1)).name}"', stem)        *)
(***************************************************************************)
DQ == "\""
SQ == "'"
IsQuote(c) == c \in {DQ, SQ}

\* the end of the longest run of non-quote tokens that starts at i (i-1 if empty)
RECURSIVE RunEnd(_, _)
RunEnd(s, i) ==
    IF i > Len(s) \/ IsQuote(s[i]) THEN i - 1 ELSE RunEnd(s, i + 1)

\* the whole path is kept, not its name
path_name_Whole(p) == p

\* Path(p).name: the last component of p that is neither empty nor "."
path_name(p) ==
    LET seps  == {i \in DOMAIN p : p[i] = "/"}
        Comp(i, j) == SubSeq(p, i, j)
        \* starts of components: position 1 and every position after a separator
        starts == {i \in 1..Len(p) + 1 : i = 1 \/ (i - 1) \in seps}
        EndOf(i) == IF \E k \in seps : k >= i
                    THEN (CHOOSE k \in seps : k >= i /\ \A l \in seps : l >= i => k <= l) - 1
                    ELSE Len(p)
        good == {i \in starts : Comp(i, EndOf(i)) \notin {<<>>, <<".">>}}
    IN  IF good = {} THEN <<>>
        ELSE LET i == CHOOSE g \in good : \A h \in good : h <= g
             IN  Comp(i, EndOf(i))

RECURSIVE RewriteFrom(_, _)
RewriteFrom(s, i) ==
    IF i > Len(s) THEN <<>>
    ELSE LET e == RunEnd(s, i + 2)
             matches == /\ s[i] = "src="
                        /\ i + 1 <= Len(s) /\ IsQuote(s[i + 1])
                        /\ e >= i + 2
                        /\ e + 1 <= Len(s) /\ IsQuote(s[e + 1])
         IN  IF matches
             THEN <<"src=", DQ, "media", "/">> \o path_name(SubSeq(s, i + 2, e)) \o <<DQ>>
                     \o RewriteFrom(s, e + 2)
             ELSE <<s[i]>> \o RewriteFrom(s, i + 1)

rewrite_src(s) == RewriteFrom(s, 1)

(***************************************************************************)
(* Input documents.  Elem builds the document-order sequence of an element *)
(* and its children.                                                       *)
(***************************************************************************)
Concat(ss) == FlatMap(LAMBDA x : x, ss)

Elem(n, kids) == <<n>> \o [i \in DOMAIN kids |-> [kids[i] EXCEPT !.d = @ + 1]]

El(ns, tag, kids) == Elem(Node(ns, tag, <<>>, <<>>), kids)
Leaf(ns, tag, text) == <<Node(ns, tag, text, <<>>)>>

Material(ns, text) == El(ns, "material", Leaf(ns, "mattext", text))

MetaFieldEl(ns, f) ==
    El(ns, "qtimetadatafield", Leaf(ns, "fieldlabel", f[1]) \o Leaf(ns, "fieldentry", f[2]))

MetadataEl(ns, fields) ==
    IF fields = <<>> THEN <<>>
    ELSE El(ns, "itemmetadata",
            El(ns, "qtimetadata", FlatMap(LAMBDA f : MetaFieldEl(ns, f), fields)))

IdNames == <<"id1", "id2", "id3", "id4", "id5", "id6">>

IdentOf(i) == <<IdNames[i]>>

ChoiceEl(ns, i, text) ==
    Elem(Node(ns, "response_label", <<>>, IdentOf(i)), Material(ns, text))

LidEl(ns, texts) ==
    El(ns, "response_lid",
       El(ns, "render_choice",
          Concat([i \in DOMAIN texts |-> ChoiceEl(ns, i, texts[i])])))

StrEl(ns) == El(ns, "response_str", El(ns, "render_fib", <<>>))

\* one respcondition per correct identifier
ResprocessingEl(ns, correct) ==
    IF correct = <<>> THEN <<>>
    ELSE El(ns, "resprocessing",
            FlatMap(LAMBDA i : El(ns, "respcondition",
                                  El(ns, "conditionvar", Leaf(ns, "varequal", IdentOf(i)))),
                    correct))

\* where the stem material sits in the presentation block
StemPlaces == {"none", "direct", "wrapped"}

StemEl(ns, place, text) ==
    CASE place = "none"    -> <<>>
      [] place = "direct"  -> Material(ns, text)
      [] place = "wrapped" -> El(ns, "flow", Material(ns, text))

\* p describes the item; the element is what the exporter wrote for it
ItemEl(p) ==
    El(p.ns, "item",
       MetadataEl(p.ns, p.fields)
       \o (IF p.pres
           THEN El(p.ns, "presentation",
                   StemEl(p.ns, p.place, p.stem)
                   \o (IF p.lid THEN LidEl(p.ns, p.choices) ELSE <<>>)
                   \o (IF p.str THEN StrEl(p.ns) ELSE <<>>))
           ELSE <<>>)
       \o ResprocessingEl(p.ns, p.correct)
       \o (IF p.feedback # <<>> THEN El(p.ns, "itemfeedback", Material(p.ns, p.feedback))
           ELSE <<>>))

ItemParams(ns, fields, pres, place, stemText, lid, choices, str, correct, feedback) ==
    [ns |-> ns, fields |-> fields, pres |-> pres, place |-> place, stem |-> stemText,
     lid |-> lid, choices |-> choices, str |-> str, correct |-> correct,
     feedback |-> feedback]

(***************************************************************************)
(* Bounds and input sets.                                                  *)
(***************************************************************************)
MaxMeta    == 2     \* metadata fields of an item
MaxChoices == 4     \* choices of an item
MaxEscLen  == 3     \* characters of a text given to escape_tex
MaxPathLen == 4     \* tokens of the path of a src reference
MaxFiles   == 2     \* input documents
MaxKids    == 2     \* children of the first section of a document

NS == {"", "http://www.imsglobal.org/xsd/ims_qtiasiv1p2"}

TypeLabels == {<<"question_type">>, <<"Question_Type">>, <<"interaction_type">>}
TypeValues == {<<>>, <<"Essay_Question">>, <<"numerical_question">>}
Fields      == TypeLabels \X TypeValues
ChoiceTexts == {<<"True">>, <<"FALSE">>, <<"X">>}

\* items that differ in their metadata
ItemsMeta ==
    {ItemParams(ns, fields, TRUE, "direct", <<"q">>, st[1], st[2], st[3], st[4], <<>>) :
        ns \in NS, fields \in SeqsUpTo(Fields, MaxMeta),
        st \in {<<FALSE, <<>>, FALSE, <<>> >>,
                <<FALSE, <<>>, TRUE, <<>> >>,
                <<TRUE, << <<"True">>, <<"FALSE">> >>, FALSE, <<1>> >>,
                <<TRUE, << <<"X">>, <<"X">>, <<"X">>, <<"X">> >>, FALSE, <<1, 2>> >>}}

\* items that differ in their response structures and answer key
ItemsChoice ==
    {ItemParams("", fields, TRUE, "direct", <<"q">>, lid, choices, str, correct, <<>>) :
        fields \in {<<>>, << <<<<"Question_Type">>, <<"Essay_Question">>>> >>,
                    << <<<<"question_type">>, <<>>>> >>},
        lid \in BOOLEAN, choices \in SeqsUpTo(ChoiceTexts, MaxChoices),
        str \in BOOLEAN, correct \in {<<>>, <<1>>, <<1, 2>>}}

\* items that differ in where their texts sit
ItemsStem ==
    {ItemParams(ns, <<>>, pres, place, stemText, lid,
                IF lid THEN << <<"X">>, <<"True">> >> ELSE <<>>, FALSE, <<1>>, fb) :
        ns \in NS, pres \in BOOLEAN, place \in StemPlaces,
        stemText \in {<<"q">>, <<" ", "q", "\n">>}, lid \in BOOLEAN,
        fb \in {<<>>, <<"fb">>}}

ItemInputs ==
    {p \in ItemsMeta \cup ItemsChoice \cup ItemsStem :
        /\ (~p.lid => p.choices = <<>>)
        /\ (~p.pres => ~p.lid /\ ~p.str)}

EscChars == {BS, "{", "}", "#", "$", "%", "&", "_", "^", "~", NL, "a"}

PathToks == {"/", ".", "f", "media"}

RewriteInputs ==
    [pre  : {<<>>, <<"f">>, <<"src=">>, <<"src=", SQ, "f", "/", "f", SQ>>},
     q1   : {DQ, SQ},
     path : SeqsUpTo(PathToks, MaxPathLen),
     q2   : {DQ, SQ},
     post : {<<>>, <<"f">>, <<DQ>>}]

StemOf(r) == r.pre \o <<"src=", r.q1>> \o r.path \o <<r.q2>> \o r.post

(***************************************************************************)
(* Idle values of the variables a specification does not use.              *)
(***************************************************************************)
IdleItem ==
    /\ item = ItemParams("", <<>>, FALSE, "none", <<>>, FALSE, <<>>, FALSE, <<>>, <<>>)
    /\ ipc = "idle" /\ meta = EmptyMeta /\ qtype = <<>> /\ stem = <<>> /\ fragment = <<>>

IdleEsc == escIn = <<>> /\ escOut = <<>> /\ epc = "idle"

IdleRw ==
    /\ rwIn = [pre |-> <<>>, q1 |-> DQ, path |-> <<>>, q2 |-> DQ, post |-> <<>>]
    /\ rwOut = <<>> /\ rpc = "idle"

IdleMain ==
    /\ pc = "idle" /\ is_zip = FALSE /\ tmp_dir = "" /\ tmp_exists = FALSE
    /\ nfiles = -1 /\ media_made = FALSE /\ title = <<>> /\ xf = 0 /\ doc = <<>>
    /\ questions = 0 /\ qi = 0 /\ qcount = 0 /\ out_opened = FALSE /\ out_closed = FALSE
    /\ written = <<>> /\ status = -1 /\ error = "" /\ path_items = 0 /\ path_unknown = 0

(***************************************************************************)
(* One item through the steps main takes for it (lines 288-294).           *)
(***************************************************************************)
InitItem ==
    /\ item \in ItemInputs
    /\ ipc = "meta" /\ meta = EmptyMeta /\ qtype = <<>> /\ stem = <<>> /\ fragment = <<>>
    /\ IdleEsc /\ IdleRw /\ IdleMain

GetMetadata ==
    /\ ipc = "meta"
    /\ meta' = get_qti_metadata(ItemEl(item), 1)
    /\ ipc' = "type"
    /\ UNCHANGED <<item, qtype, stem, fragment, escVars, rwVars, mainVars>>

GuessType ==
    /\ ipc = "type"
    /\ qtype' = guess_type(meta, ItemEl(item), 1)
    /\ ipc' = "stem"
    /\ UNCHANGED <<item, meta, stem, fragment, escVars, rwVars, mainVars>>

GetItemStem ==
    /\ ipc = "stem"
    /\ stem' = get_item_stem(ItemEl(item), 1)
    /\ ipc' = "rewrite"
    /\ UNCHANGED <<item, meta, qtype, fragment, escVars, rwVars, mainVars>>

RewriteStem ==
    /\ ipc = "rewrite"
    /\ stem' = rewrite_src(stem)
    /\ ipc' = "render"
    /\ UNCHANGED <<item, meta, qtype, fragment, escVars, rwVars, mainVars>>

Render ==
    /\ ipc = "render"
    /\ fragment' = render_question_latex(qtype, stem, ItemEl(item), 1)
    /\ ipc' = "done"
    /\ UNCHANGED <<item, meta, qtype, stem, escVars, rwVars, mainVars>>

NextItem == GetMetadata \/ GuessType \/ GetItemStem \/ RewriteStem \/ Render

SpecItem == InitItem /\ [][NextItem]_vars

(***************************************************************************)
(* escape_tex applied to a text.                                           *)
(***************************************************************************)
InitEscape ==
    /\ escIn \in SeqsUpTo(EscChars, MaxEscLen)
    /\ escOut = <<>> /\ epc = "call"
    /\ IdleItem /\ IdleRw /\ IdleMain

EscapeTex ==
    /\ epc = "call"
    /\ escOut' = escape_tex(escIn)
    /\ epc' = "done"
    /\ UNCHANGED <<escIn, itemVars, rwVars, mainVars>>

NextEscape == EscapeTex

SpecEscape == InitEscape /\ [][NextEscape]_vars

(***************************************************************************)
(* The media path rewrite applied to a stem that holds a src reference.    *)
(***************************************************************************)
InitRewrite ==
    /\ rwIn \in RewriteInputs
    /\ rwOut = <<>> /\ rpc = "call"
    /\ IdleItem /\ IdleEsc /\ IdleMain

RewriteSrc ==
    /\ rpc = "call"
    /\ rwOut' = rewrite_src(StemOf(rwIn))
    /\ rpc' = "done"
    /\ UNCHANGED <<rwIn, itemVars, escVars, mainVars>>

NextRewrite == RewriteSrc

SpecRewrite == InitRewrite /\ [][NextRewrite]_vars

(***************************************************************************)
(* main.  The documents main reads: a root element over assessments,       *)
(* sections and items.                                                     *)
(***************************************************************************)
KidKinds == {"bare", "str", "section"}

BareItem == ItemParams("", <<>>, TRUE, "direct", <<"q">>, FALSE, <<>>, FALSE, <<>>, <<>>)

KidEl(k) ==
    CASE k = "bare"    -> ItemEl(BareItem)
      [] k = "str"     -> ItemEl([BareItem EXCEPT !.str = TRUE])
      [] k = "section" -> El("", "section", ItemEl(BareItem))

DocShapes == {"plain", "two_sections", "two_assessments", "no_assessment", "no_section"}

DocEl(shape, kinds) ==
    LET kids == FlatMap(KidEl, kinds)
        more == El("", "section", ItemEl(BareItem))
    IN  El("", "questestinterop",
           CASE shape = "plain"           -> El("", "assessment", El("", "section", kids))
             [] shape = "two_sections"    -> El("", "assessment", El("", "section", kids) \o more)
             [] shape = "two_assessments" -> El("", "assessment", El("", "section", kids))
                                             \o El("", "assessment", more)
             [] shape = "no_assessment"   -> El("", "section", kids)
             [] shape = "no_section"      -> El("", "assessment", kids))

Docs == {DocEl(shape, kinds) : shape \in DocShapes, kinds \in SeqsUpTo(KidKinds, MaxKids)}

\* the children of an element, in document order
Children(t, e) == InOrder({j \in Iter(t, e) : t[j].d = t[e].d + 1})

\* the parent of an element (0 for the root)
Parent(t, j) ==
    LET up == {k \in 1..(j - 1) : t[k].d = t[j].d - 1}
    IN  IF up = {} THEN 0 ELSE CHOOSE k \in up : \A l \in up : l <= k

\* the items of a document at the path root / assessment / section / item
PathItems(t) ==
    {j \in DOMAIN t :
        /\ extract_tag(t[j]) = "item"
        /\ Parent(t, j) # 0 /\ extract_tag(t[Parent(t, j)]) = "section"
        /\ Parent(t, Parent(t, j)) # 0
        /\ extract_tag(t[Parent(t, Parent(t, j))]) = "assessment"
        /\ Parent(t, Parent(t, Parent(t, j))) = 1}

\* an item without type metadata, choice structure and free-text structure
Unstructured(t, j) ==
    \A k \in Iter(t, j) :
        extract_tag(t[k]) \notin {"qtimetadatafield", "response_lid", "response_str"}

\* the titles found in documents
Titles == {<<"Quiz", "_", "1">>}

Header(ttl, description) ==
    <<Lit(<<"\\documentclass[10pt,addpoints]{exam} ... {\\Large ">>), Lit(escape_tex(ttl)),
      Lit(<<"}\\\\[4pt] ... ">>), description, Lit(<<"\\begin{questions}\n">>), Lit(<<"\n">>)>>

Footer == <<Lit(<<"\\end{questions}\n\\end{document}\n">>)>>

InitMain ==
    /\ pc = "start" /\ is_zip \in BOOLEAN /\ tmp_dir = "" /\ tmp_exists = FALSE
    /\ nfiles = -1 /\ media_made = FALSE /\ title = <<"Exam">> /\ xf = 0 /\ doc = <<>>
    /\ questions = 0 /\ qi = 0 /\ qcount = 0 /\ out_opened = FALSE /\ out_closed = FALSE
    /\ written = <<>> /\ status = -1 /\ error = "" /\ path_items = 0 /\ path_unknown = 0
    /\ IdleItem /\ IdleEsc /\ IdleRw

\* an uncaught exception, or SystemExit with a message: the process ends with status 1;
\* leaving the with block closes the output file
Abort(why) ==
    /\ pc' = "exit" /\ status' = 1 /\ error' = why
    /\ out_closed' = out_opened

\* lines 228-233
SelectInput ==
    /\ pc = "start"
    /\ IF is_zip
       THEN tmp_dir' = "qti2tex_" /\ tmp_exists' = TRUE
       ELSE UNCHANGED <<tmp_dir, tmp_exists>>
    /\ pc' = "read"
    /\ UNCHANGED <<is_zip, nfiles, media_made, title, xf, doc, questions, qi, qcount,
                   out_opened, out_closed, written, status, error, path_items, path_unknown,
                   itemVars, escVars, rwVars>>

\* lines 69-73: the archive cannot be read, after mkdtemp
ExtractFails ==
    /\ pc = "start" /\ is_zip
    /\ tmp_dir' = "qti2tex_" /\ tmp_exists' = TRUE
    /\ Abort("zip")
    /\ UNCHANGED <<is_zip, nfiles, media_made, title, xf, doc, questions, qi, qcount,
                   out_opened, written, path_items, path_unknown, itemVars, escVars, rwVars>>

\* the run goes on when no document is found
ReadQtiDir_NoAbort ==
    /\ pc = "read"
    /\ \E n \in 0..MaxFiles :
          /\ nfiles' = n
          /\ pc' = "media"
          /\ UNCHANGED <<status, error, out_closed>>
    /\ UNCHANGED <<is_zip, tmp_dir, tmp_exists, media_made, title, xf, doc, questions, qi,
                   qcount, out_opened, written, path_items, path_unknown, itemVars, escVars, rwVars>>

\* lines 236-238
ReadQtiDir ==
    /\ pc = "read"
    /\ \E n \in 0..MaxFiles :
          /\ nfiles' = n
          /\ IF n = 0
             THEN Abort("No QTI XML files found.")
             ELSE pc' = "media" /\ UNCHANGED <<status, error, out_closed>>
    /\ UNCHANGED <<is_zip, tmp_dir, tmp_exists, media_made, title, xf, doc, questions, qi,
                   qcount, out_opened, written, path_items, path_unknown, itemVars, escVars, rwVars>>

\* lines 241-252
CopyMedia ==
    /\ pc = "media"
    /\ media_made' = TRUE
    /\ pc' = "titles"
    /\ UNCHANGED <<is_zip, tmp_dir, tmp_exists, nfiles, title, xf, doc, questions, qi,
                   qcount, out_opened, out_closed, written, status, error, path_items, path_unknown,
                   itemVars, escVars, rwVars>>

\* lines 254-266: the title of the last document that has one (the documents read
\* carry a title and no description)
ReadTitles ==
    /\ pc = "titles"
    /\ \E ttl \in Titles : title' = ttl
    /\ pc' = "open"
    /\ UNCHANGED <<is_zip, tmp_dir, tmp_exists, nfiles, media_made, xf, doc, questions, qi,
                   qcount, out_opened, out_closed, written, status, error, path_items, path_unknown,
                   itemVars, escVars, rwVars>>

\* line 266: the converter fails on a description
ReadTitlesFails ==
    /\ pc = "titles"
    /\ Abort("conversion")
    /\ UNCHANGED <<is_zip, tmp_dir, tmp_exists, nfiles, media_made, title, xf, doc,
                   questions, qi, qcount, out_opened, written, path_items, path_unknown,
                   itemVars, escVars, rwVars>>

\* lines 270-273
OpenOutput ==
    /\ pc = "open"
    /\ out_opened' = TRUE
    /\ written' = <<Header(title, Lit(<<>>))>>
    /\ qcount' = 0
    /\ xf' = 1
    /\ pc' = "file"
    /\ UNCHANGED <<is_zip, tmp_dir, tmp_exists, nfiles, media_made, title, doc, questions,
                   qi, out_closed, status, error, path_items, path_unknown, itemVars, escVars, rwVars>>

\* line 270: the output file cannot be opened
OpenOutputFails ==
    /\ pc = "open"
    /\ Abort("write")
    /\ UNCHANGED <<is_zip, tmp_dir, tmp_exists, nfiles, media_made, title, xf, doc,
                   questions, qi, qcount, out_opened, written, path_items, path_unknown,
                   itemVars, escVars, rwVars>>

\* lines 280-285: the first section of the first assessment of a document (0 for None)
FirstSection(d) ==
    LET assessement == child_anyns(d, 1, "assessment")
    IN  IF assessement = 0 THEN 0 ELSE child_anyns(d, assessement, "section")

\* what parsing a document yields, with the number of items it has at the path
\* assessment / section / item and of those among them that have no type and no
\* response structure
Parsed ==
    {[root |-> d, section |-> FirstSection(d),
      at_path |-> Cardinality(PathItems(d)),
      unknown_at_path |-> Cardinality({j \in PathItems(d) : Unstructured(d, j)})] :
        d \in Docs}

\* lines 274-285: the next document is parsed and its first section looked up
ParseFile ==
    /\ pc = "file" /\ xf <= nfiles
    /\ \/ \* ET.ParseError: the document is skipped
          /\ xf' = xf + 1
          /\ UNCHANGED <<pc, doc, questions, qi, path_items, path_unknown>>
       \/ \E r \in Parsed :
             /\ path_items' = path_items + r.at_path
             /\ path_unknown' = path_unknown + r.unknown_at_path
             /\ IF r.section = 0 \/ Children(r.root, r.section) = <<>>
                THEN xf' = xf + 1 /\ UNCHANGED <<pc, doc, questions, qi>>
                ELSE /\ doc' = r.root /\ questions' = r.section /\ qi' = 1
                     /\ pc' = "item"
                     /\ UNCHANGED xf
    /\ UNCHANGED <<is_zip, tmp_dir, tmp_exists, nfiles, media_made, title, qcount,
                   out_opened, out_closed, written, status, error, itemVars, escVars, rwVars>>

\* the next child of the section, or the next document after the last child
Advance ==
    IF qi < Len(Children(doc, questions))
    THEN qi' = qi + 1 /\ UNCHANGED <<pc, xf, doc, questions>>
    ELSE pc' = "file" /\ xf' = xf + 1 /\ doc' = <<>> /\ questions' = 0 /\ qi' = 0

\* lines 286-298: one child of the section
ProcessChild ==
    /\ pc = "item"
    /\ LET question == Children(doc, questions)[qi]
       IN  IF extract_tag(doc[question]) = "item"
           THEN LET m  == get_qti_metadata(doc, question)
                    qt == guess_type(m, doc, question)
                    st == rewrite_src(get_item_stem(doc, question))
                IN  /\ qcount' = qcount + 1
                    /\ written' = Append(written, render_question_latex(qt, st, doc, question))
           ELSE UNCHANGED <<qcount, written>>
    /\ Advance
    /\ UNCHANGED <<is_zip, tmp_dir, tmp_exists, nfiles, media_made, title, out_opened,
                   out_closed, status, error, path_items, path_unknown, itemVars, escVars, rwVars>>

\* line 294: the converter fails on the stem or on a choice of an item
ConversionFails ==
    /\ pc = "item"
    /\ extract_tag(doc[Children(doc, questions)[qi]]) = "item"
    /\ qcount' = qcount + 1
    /\ Abort("conversion")
    /\ UNCHANGED <<is_zip, tmp_dir, tmp_exists, nfiles, media_made, title, xf, doc,
                   questions, qi, out_opened, written, path_items, path_unknown, itemVars, escVars, rwVars>>

\* line 299 and the end of the with block
WriteFooter ==
    /\ pc = "file" /\ xf > nfiles
    /\ written' = Append(written, Footer)
    /\ out_closed' = TRUE
    /\ pc' = "cleanup"
    /\ UNCHANGED <<is_zip, tmp_dir, tmp_exists, nfiles, media_made, title, xf, doc,
                   questions, qi, qcount, out_opened, status, error, path_items, path_unknown,
                   itemVars, escVars, rwVars>>

\* lines 301-306
Cleanup ==
    /\ pc = "cleanup"
    /\ tmp_exists' = IF tmp_dir # "" THEN FALSE ELSE tmp_exists
    /\ pc' = "done" /\ status' = 0
    /\ UNCHANGED <<is_zip, tmp_dir, nfiles, media_made, title, xf, doc, questions, qi,
                   qcount, out_opened, out_closed, written, error, path_items, path_unknown,
                   itemVars, escVars, rwVars>>

NextMain ==
    \/ SelectInput \/ ExtractFails \/ ReadQtiDir \/ CopyMedia \/ ReadTitles
    \/ ReadTitlesFails \/ OpenOutput \/ OpenOutputFails \/ ParseFile \/ ProcessChild
    \/ ConversionFails \/ WriteFooter \/ Cleanup

SpecMain == InitMain /\ [][NextMain]_vars

(***************************************************************************)
(* What an item's description says of it, read off the description and not *)
(* off the XML.                                                            *)
(***************************************************************************)
\* the value of the last field labelled L (<<>> if there is none): the metadata mapping
LastValue(fields, L) ==
    LET at == {i \in DOMAIN fields : fields[i][1] = L}
    IN  IF at = {} THEN <<>>
        ELSE fields[CHOOSE i \in at : \A k \in at : k <= i][2]

LabelsOf(fields) == {fields[i][1] : i \in DOMAIN fields}

NoExplicitType(p) ==
    /\ LastValue(p.fields, <<"question_type">>) = <<>>
    /\ LastValue(p.fields, <<"interaction_type">>) = <<>>

LoweredChoices(p) == [i \in DOMAIN p.choices |-> lower(p.choices[i])]

Classified == ipc \in {"stem", "rewrite", "render", "done"}

(***************************************************************************)
(* C1 (as stated): when the metadata holds a field whose label is          *)
(* question_type or interaction_type in any letter case and whose value is *)
(* not empty, guess_type returns such a value, lower-cased, whatever the   *)
(* item's response structures, choices and answer key are.                 *)
(***************************************************************************)
C1_AnyCaseLabel ==
    Classified =>
        LET vals == {LastValue(item.fields, L) :
                        L \in {M \in LabelsOf(item.fields) :
                                  lower(M) \in {<<"question_type">>, <<"interaction_type">>}}}
                    \ {<<>>}
        IN  vals # {} => qtype \in {lower(v) : v \in vals}

(***************************************************************************)
(* C1 (amended): when the metadata holds a non-empty value under the exact *)
(* label question_type, guess_type returns it lower-cased; otherwise, when *)
(* it holds a non-empty value under the exact label interaction_type,      *)
(* guess_type returns that one lower-cased; whatever the item's response   *)
(* structures, choices and answer key are.                                 *)
(***************************************************************************)
C1_ExactLabel ==
    Classified =>
        LET qv == LastValue(item.fields, <<"question_type">>)
            iv == LastValue(item.fields, <<"interaction_type">>)
        IN  /\ qv # <<>> => qtype = lower(qv)
            /\ qv = <<>> /\ iv # <<>> => qtype = lower(iv)

C1_Witness ==
    /\ Classified
    /\ LastValue(item.fields, <<"interaction_type">>) = <<"Essay_Question">>
    /\ LastValue(item.fields, <<"question_type">>) = <<>>
    /\ item.lid /\ Len(item.choices) = 2
    /\ qtype = <<"essay_question">>

(***************************************************************************)
(* C2 (as stated): a choice-bearing item without explicit type metadata is *)
(* classified true/false when its choices are exactly two, labelled true   *)
(* and false in any letter case, and is not classified true/false when its *)
(* choices carry those two labels and number three or more.                *)
(***************************************************************************)
C2_ThreeOrMore ==
    Classified /\ item.lid /\ NoExplicitType(item) =>
        LET labels == LoweredChoices(item)
        IN  /\ Len(labels) = 2 /\ Range(labels) = {<<"true">>, <<"false">>} => qtype = TF
            /\ {<<"true">>, <<"false">>} \subseteq Range(labels) /\ Len(labels) >= 3
                  => qtype # TF

(***************************************************************************)
(* C2 (amended): a choice-bearing item without explicit type metadata is   *)
(* classified true/false when its choices are exactly two, labelled true   *)
(* and false in any letter case, and also when a third choice comes with   *)
(* those two labels; it is not classified true/false when its choices      *)
(* carry those two labels and number four or more.                         *)
(***************************************************************************)
C2_FourOrMore ==
    Classified /\ item.lid /\ NoExplicitType(item) =>
        LET labels == LoweredChoices(item)
        IN  /\ Len(labels) = 2 /\ Range(labels) = {<<"true">>, <<"false">>} => qtype = TF
            /\ {<<"true">>, <<"false">>} \subseteq Range(labels) /\ Len(labels) = 3
                  => qtype = TF
            /\ {<<"true">>, <<"false">>} \subseteq Range(labels) /\ Len(labels) >= 4
                  => qtype # TF

C2_Witness ==
    /\ Classified /\ item.lid /\ NoExplicitType(item)
    /\ item.choices = << <<"True">>, <<"FALSE">>, <<"X">>, <<"X">> >>
    /\ qtype = MCQ

(***************************************************************************)
(* C3 (as stated): an item without explicit type metadata whose answer key *)
(* names more than one identifier, and which is not classified true/false, *)
(* is classified multiple-answers.                                         *)
(***************************************************************************)
C3_AnyItem ==
    Classified /\ NoExplicitType(item) /\ Cardinality(Range(item.correct)) > 1 /\ qtype # TF
        => qtype = MAQ

(***************************************************************************)
(* C3 (amended): an item with a response_lid structure and without         *)
(* explicit type metadata whose answer key names more than one identifier, *)
(* and which is not classified true/false, is classified multiple-answers. *)
(***************************************************************************)
C3_ChoiceBearing ==
    Classified /\ item.lid /\ NoExplicitType(item)
               /\ Cardinality(Range(item.correct)) > 1 /\ qtype # TF
        => qtype = MAQ

C3_Witness ==
    /\ Classified /\ item.lid /\ NoExplicitType(item)
    /\ item.correct = <<1, 2>> /\ item.choices = << <<"X">>, <<"X">>, <<"X">> >>
    /\ qtype = MAQ

(***************************************************************************)
(* C10: for an item whose presentation block holds only choice labels and  *)
(* no stem material, the stem get_item_stem returns is never the text of a *)
(* choice.                                                                 *)
(***************************************************************************)
C10_StemIsNoChoice ==
    ipc = "rewrite" /\ item.pres /\ item.place = "none" /\ item.lid =>
        stem \notin {strip(item.choices[i]) : i \in DOMAIN item.choices}

(***************************************************************************)
(* C8: for a text without a double backslash followed by a newline,        *)
(* escape_tex returns the concatenation of the escape sequences of the     *)
(* text's characters, each character escaped once.                         *)
(***************************************************************************)
EscapeOf(c) ==
    CASE c = BS  -> <<BS, BS>>
      [] c \in {"{", "}", "#", "$", "%", "&", "_"} -> <<BS, c>>
      [] c \in {"^", "~"} -> <<BS, c, "{", "}">>
      [] OTHER -> <<c>>

HasBreak(s) == \E i \in DOMAIN s : StartsAt(s, i, <<BS, BS, NL>>)

C8_EscapedOnce ==
    epc = "done" /\ ~HasBreak(escIn) => escOut = FlatMap(EscapeOf, escIn)

C8_Witness ==
    /\ epc = "done" /\ escIn = <<BS, "^", "{">>
    /\ escOut = <<BS, BS, BS, "^", "{", "}", BS, "{">>

(***************************************************************************)
(* C7 (as stated): the rewrite leaves a stem as it is when the path of its *)
(* src reference has no directory component.                               *)
(***************************************************************************)
QuoteFree(s) == \A i \in DOMAIN s : ~IsQuote(s[i])

\* a plain file name: no directory component, and not "."
FlatPath(p) == p # <<>> /\ p # <<".">> /\ \A i \in DOMAIN p : p[i] # "/"

C7_FlatIsNoOp ==
    rpc = "done" /\ QuoteFree(rwIn.pre) /\ FlatPath(rwIn.path) => rwOut = StemOf(rwIn)

(***************************************************************************)
(* C7 (amended): a src reference whose path is a plain file name is        *)
(* rewritten to src="media/<name>", so the stem changes; the rewrite       *)
(* leaves a stem as it is when its reference already reads                 *)
(* src="media/<name>" in double quotes.                                    *)
(***************************************************************************)
C7_FlatGetsMedia ==
    rpc = "done" /\ QuoteFree(rwIn.pre) =>
        /\ FlatPath(rwIn.path) =>
              /\ rwOut = rwIn.pre \o <<"src=", DQ, "media", "/">> \o rwIn.path \o <<DQ>>
                            \o rwIn.post
              /\ rwOut # StemOf(rwIn)
        /\ (\E n \in SeqsUpTo(PathToks, MaxPathLen) :
                FlatPath(n) /\ rwIn.path = <<"media", "/">> \o n)
            /\ rwIn.q1 = DQ /\ rwIn.q2 = DQ
              => rwOut = StemOf(rwIn)

C7_Witness ==
    /\ rpc = "done" /\ rwIn.pre = <<"f">> /\ rwIn.path = <<"f", ".", "f">>
    /\ rwIn.q1 = SQ /\ rwIn.q2 = SQ
    /\ rwOut = <<"f", "src=", DQ, "media", "/", "f", ".", "f", DQ>> \o rwIn.post

(***************************************************************************)
(* C4: at the end of a completed run the number of question fragments      *)
(* written equals the number of item elements, over all the documents      *)
(* parsed, that are children of a section that is a child of an assessment *)
(* under the document root.                                                *)
(***************************************************************************)
C4_CountsPathItems == pc = "done" => qcount = path_items

(***************************************************************************)
(* C5: when the input is an archive, the temporary extraction directory    *)
(* is gone when the run has ended: after normal completion, after the      *)
(* fatal exit for no input document, and after an error in converting or   *)
(* in writing the output.                                                  *)
(***************************************************************************)
C5_TmpRemoved ==
    /\ pc = "done" /\ is_zip => ~tmp_exists
    /\ pc = "exit" /\ is_zip /\ error \in {"No QTI XML files found.", "conversion", "write"}
          => ~tmp_exists

(***************************************************************************)
(* C6: when no input document is found the run has aborted with a status   *)
(* other than zero, and the output file has not been opened or written.    *)
(***************************************************************************)
C6_NoInputNoOutput ==
    nfiles = 0 => pc = "exit" /\ status > 0 /\ ~out_opened /\ written = <<>>

C6_Witness ==
    /\ nfiles = 0 /\ pc = "exit" /\ status = 1 /\ error = "No QTI XML files found."
    /\ ~out_opened /\ is_zip

(***************************************************************************)
(* C9: every item at the path assessment / section / item that has no type *)
(* metadata, no response_lid and no response_str is rendered as its stem   *)
(* followed by the unsupported marker and is counted: at the end of a      *)
(* completed run there are as many fragments with the marker as such items *)
(* were read, and no fewer questions counted.                              *)
(***************************************************************************)
MarkerFragments == {i \in DOMAIN written : UnsupportedMarker \in Range(written[i])}

C9_UnknownRenderedAndCounted ==
    pc = "done" => Cardinality(MarkerFragments) = path_unknown /\ qcount >= path_unknown

====
